---------------------------- MODULE Spec2Model ----------------------------
(***************************************************************************)
(* Model of apps/web/lib/transcribe-direct.ts: transcribeVideoDirect, the  *)
(* direct transcription pipeline of one video (metadata read, status       *)
(* updates, audio extraction, staging in object storage, AssemblyAI        *)
(* submit/poll, subtitle artifact, cleanup, failure handler).              *)
(*                                                                         *)
(* Every `await` of the function is one action: the external call happens  *)
(* and answers (or fails) in that step.  Runs are the invocations of       *)
(* transcribeVideoDirect; two of them may be in flight at once.            *)
(***************************************************************************)
EXTENDS Integers, Sequences, FiniteSets, TLC

\* ------------------------------------------------------------------ bounds
\* Polls answered "queued"/"processing" that one run may log.
MaxPolls == 1
\* Utterances of one AssemblyAI result.
MaxUtterances == 2
\* Every millisecond value up to this one is formatted, and beyond it sampled
\* values up to MaxHours hours.
MaxSmallMs == 1500
MaxHours == 100

\* --------------------------------------------------------------- universes
Runs     == {"r1", "r2"}
VideoIds == {"v1", "v2"}
UserIds  == {"u1", "u2"}

\* transcriptionStatus column; "UNSET" is the SQL null of line 286.
Statuses == {"UNSET", "PROCESSING", "COMPLETE", "SKIPPED", "NO_AUDIO"}

\* A nullable boolean setting (settings?.disableTranscript).
Settings == {"null", "true", "false"}

\* Object keys of lines 195, 241, 255.
videoKey(userId, videoId)         == <<userId, videoId, "result.mp4">>
audioKey(userId, videoId)         == <<userId, videoId, "audio-temp.mp3">>
transcriptionKey(userId, videoId) == <<userId, videoId, "transcription.vtt">>

ObjectKeys ==
    UNION {{audioKey(u, v), transcriptionKey(u, v)} : <<u, v>> \in UserIds \X VideoIds}

NoObject == [kind |-> "absent", by |-> "nobody"]

\* Values a `throw` carries: an Error with a message, or some other value.
Err(msg)   == [isError |-> TRUE, message |-> msg]
NonError   == [isError |-> FALSE, message |-> "non-error value"]
NoError    == [isError |-> FALSE, message |-> "none"]
\* What a failing collaborator (database, bucket, fetch, ffmpeg, fs) throws.
ExternalFailures == {Err("collaborator failure"), NonError}

NoResult  == [success |-> FALSE, message |-> "none"]
NoPayload == [videoId |-> "v1", userId |-> "u1", aiGenerationEnabled |-> FALSE]

VARIABLES
    env,                 \* serverEnv(): [apiKey, mediaServer] (is it configured)
    videos,              \* videos table joined rows: per id, the static columns
    transcriptionStatus, \* videos.transcriptionStatus per video id
    objects,             \* the bucket: key -> stored object
    job,                 \* provider's transcription job of each run
    pc,                  \* position of each run in transcribeVideoDirect
    payload,             \* argument of each run
    transcriptionDisabled, \* local of line 169
    useMediaServer,      \* local of line 206
    tempFile,            \* extractResult.filePath of the run exists on disk
    pending,             \* error held by the try/finally of lines 233-237
    error,               \* value caught at line 280
    result,              \* value returned to the caller
    polls,               \* non-terminal polls of the run so far
    calls,               \* history: external calls of the run, in order
    writes,              \* history: status writes of the run that hit a row
    statusAtCall,        \* history: transcriptionStatus when the runs were called
    fmt                  \* last call of formatTime / formatToWebVTT: [op, arg, out]

vars == <<env, videos, transcriptionStatus, objects, job, pc, payload,
          transcriptionDisabled, useMediaServer, tempFile, pending, error,
          result, polls, calls, writes, statusAtCall, fmt>>

\* Rows of the videos table as the query of lines 146-158 sees them.  The
\* query drops a video whose owner row is missing, and line 165 provides for
\* a returned row without its video object.
\*   present:   a row of videos has this id
\*   owner:     the users row of videos.ownerId exists (innerJoin, line 157)
\*   fields:    the selected `video` object of the row is non-null (line 165)
\*   settings / orgSettings: disableTranscript at video / organization level
VideoRows ==
    [present : {TRUE}, owner : BOOLEAN, fields : BOOLEAN,
     settings : Settings, orgSettings : Settings]
AbsentRow ==
    [present |-> FALSE, owner |-> FALSE, fields |-> FALSE,
     settings |-> "null", orgSettings |-> "null"]
PlainRow ==
    [present |-> TRUE, owner |-> TRUE, fields |-> TRUE,
     settings |-> "null", orgSettings |-> "null"]

\* Mutant of EffectiveDisable: the organization's setting takes precedence.
EffectiveDisableOrgFirst(row) ==
    IF row.orgSettings # "null" THEN row.orgSettings = "true"
    ELSE IF row.settings # "null" THEN row.settings = "true"
    ELSE FALSE

\* result.video.settings?.disableTranscript ?? result.orgSettings?.disableTranscript ?? false
EffectiveDisable(row) ==
    IF row.settings # "null" THEN row.settings = "true"
    ELSE IF row.orgSettings # "null" THEN row.orgSettings = "true"
    ELSE FALSE

\* ------------------------------------------------------ subtitle formatter
\* A string is the sequence of its pieces: single characters for what the
\* code computes digit by digit, whole words for the texts it copies.
Digits == <<"0", "1", "2", "3", "4", "5", "6", "7", "8", "9">>

\* Number.prototype.toString() of a non-negative integer.
RECURSIVE toString(_)
toString(n) ==
    IF n < 10 THEN <<Digits[n + 1]>>
    ELSE toString(n \div 10) \o <<Digits[(n % 10) + 1]>>

\* String.prototype.padStart(len, ch).
padStart(str, len, ch) ==
    IF Len(str) >= len THEN str
    ELSE [i \in 1..(len - Len(str)) |-> ch] \o str

\* Mutant of formatTime: the minutes are not reduced modulo the hour.
formatTimeMinutesOverflow(ms) ==
    LET totalSeconds == ms \div 1000
        hours        == totalSeconds \div 3600
        minutes      == totalSeconds \div 60
        seconds      == totalSeconds % 60
        milliseconds == ms % 1000
    IN  padStart(toString(hours), 2, "0") \o <<":">>
        \o padStart(toString(minutes), 2, "0") \o <<":">>
        \o padStart(toString(seconds), 2, "0") \o <<".">>
        \o padStart(toString(milliseconds), 3, "0")

\* Lines 67-74, for an integer ms >= 0 (Math.floor of a quotient is \div).
formatTime(ms) ==
    LET totalSeconds == ms \div 1000
        hours        == totalSeconds \div 3600
        minutes      == (totalSeconds % 3600) \div 60
        seconds      == totalSeconds % 60
        milliseconds == ms % 1000
    IN  padStart(toString(hours), 2, "0") \o <<":">>
        \o padStart(toString(minutes), 2, "0") \o <<":">>
        \o padStart(toString(seconds), 2, "0") \o <<".">>
        \o padStart(toString(milliseconds), 3, "0")

\* Array.prototype.join("\n").
RECURSIVE join(_)
join(lines) ==
    IF Len(lines) = 0 THEN <<>>
    ELSE IF Len(lines) = 1 THEN lines[1]
    ELSE lines[1] \o <<"\n">> \o join(Tail(lines))

\* The literal of line 51.
FallbackCue ==
    <<"0", "0", ":", "0", "0", ":", "0", "0", ".", "0", "0", "0">> \o <<" --> ">>
    \o <<"0", "0", ":", "0", "0", ":", "1", "0", ".", "0", "0", "0">>

\* The lines pushed by the loop of lines 56-62.
RECURSIVE cueLines(_)
cueLines(utterances) ==
    IF Len(utterances) = 0 THEN <<>>
    ELSE LET utterance == Head(utterances) IN
         << formatTime(utterance.start) \o <<" --> ">> \o formatTime(utterance.end),
            <<"<v Speaker ">> \o utterance.speaker \o <<">">> \o utterance.text,
            <<>> >>
         \o cueLines(Tail(utterances))

\* Mutant of formatToWebVTT: the blank line after a cue is not pushed.
formatToWebVTTNoBlank(res) ==
    LET RECURSIVE cues(_)
        cues(us) ==
            IF Len(us) = 0 THEN <<>>
            ELSE << formatTime(Head(us).start) \o <<" --> ">> \o formatTime(Head(us).end),
                    <<"<v Speaker ">> \o Head(us).speaker \o <<">">> \o Head(us).text >>
                 \o cues(Tail(us))
    IN  IF ~res.hasUtterances \/ Len(res.utterances) = 0
        THEN join(<< <<"WEBVTT">>, <<>>, FallbackCue,
                     IF res.hasText THEN res.text ELSE <<>> >>)
        ELSE join(<< <<"WEBVTT">>, <<>> >> \o cues(res.utterances))

\* Lines 46-65.  res.hasUtterances / res.hasText: the optional field is set;
\* `result.text || ""` is the text unless it is undefined or empty.
formatToWebVTT(res) ==
    IF ~res.hasUtterances \/ Len(res.utterances) = 0
    THEN join(<< <<"WEBVTT">>, <<>>, FallbackCue,
                 IF res.hasText THEN res.text ELSE <<>> >>)
    ELSE join(<< <<"WEBVTT">>, <<>> >> \o cueLines(res.utterances))

NoFormat == [op |-> "none", arg |-> 0, out |-> <<>>, done |-> FALSE]

\* ----------------------------------------------------------------- helpers
Log(r, c, a, ok) ==
    calls' = [calls EXCEPT ![r] = Append(@, [call |-> c, arg |-> a, ok |-> ok])]

Goto(r, p) == pc' = [pc EXCEPT ![r] = p]

\* throw inside the try block of lines 139-279: control moves to line 280.
Throw(r, e) ==
    /\ pc' = [pc EXCEPT ![r] = "catch"]
    /\ error' = [error EXCEPT ![r] = e]

\* return of a {success, message} value.
Return(r, ok, msg) ==
    /\ pc' = [pc EXCEPT ![r] = "returned"]
    /\ result' = [result EXCEPT ![r] = [success |-> ok, message |-> msg]]

\* Mutant of SetStatus: the update has no where clause and changes every row.
SetStatusEveryRow(r, s) ==
    LET v == payload[r].videoId IN
    IF videos[v].present
    THEN /\ transcriptionStatus' = [w \in VideoIds |-> s]
         /\ writes' = [writes EXCEPT ![r] =
                Append(@, [video |-> v, from |-> transcriptionStatus[v], to |-> s])]
    ELSE UNCHANGED <<transcriptionStatus, writes>>

\* db().update(videos).set({transcriptionStatus: s}).where(eq(videos.id, videoId))
\* that succeeded: it changes the row with that id, when there is one.
SetStatus(r, s) ==
    LET v == payload[r].videoId IN
    IF videos[v].present
    THEN /\ transcriptionStatus' = [transcriptionStatus EXCEPT ![v] = s]
         /\ writes' = [writes EXCEPT ![r] =
                Append(@, [video |-> v, from |-> transcriptionStatus[v], to |-> s])]
    ELSE UNCHANGED <<transcriptionStatus, writes>>

\* error instanceof Error ? error.message : "Transcription failed"  (line 291)
MessageOf(e) == IF e.isError THEN e.message ELSE "Transcription failed"


\* Variable groups for UNCHANGED.
world   == <<env, videos, statusAtCall, fmt>>
store   == <<transcriptionStatus, writes, objects>>
locals  == <<transcriptionDisabled, useMediaServer, tempFile, pending, polls>>

\* An awaited collaborator call c(a) of run r rejects: the rejection is thrown
\* inside the try block, whatever the collaborator threw.
CallFails(r, c, a) ==
    \E e \in ExternalFailures :
        /\ Log(r, c, a, FALSE)
        /\ Throw(r, e)
        /\ UNCHANGED <<world, store, locals, job, payload, result>>

\* ------------------------------------------------ transcribeVideoDirect
\* Lines 139-144: read the AssemblyAI key from the server environment.
CheckAssemblyKey(r) ==
    /\ pc[r] = "start"
    /\ \/ \E e \in ExternalFailures : Throw(r, e)
       \/ /\ ~env.apiKey
          /\ Throw(r, Err("Missing ASSEMBLYAI_API_KEY"))
       \/ /\ env.apiKey
          /\ Goto(r, "query")
          /\ UNCHANGED error
    /\ UNCHANGED <<world, store, locals, job, payload, result, calls>>

\* Rows the select of lines 146-158 returns for one video id: the videos row
\* inner-joined with its owner (buckets and organizations are left joins).
Query(videoId) ==
    IF videos[videoId].present /\ videos[videoId].owner
    THEN <<videos[videoId]>>
    ELSE <<>>

\* Lines 146-172: the metadata read, its two checks, the effective flag.
QueryVideo(r) ==
    /\ pc[r] = "query"
    /\ \/ CallFails(r, "select", "videos")
       \/ /\ Log(r, "select", "videos", TRUE)
          /\ LET query == Query(payload[r].videoId) IN
             IF Len(query) = 0
             THEN /\ Throw(r, Err("Video does not exist"))
                  /\ UNCHANGED transcriptionDisabled
             ELSE IF ~query[1].fields
             THEN /\ Throw(r, Err("Video information is missing"))
                  /\ UNCHANGED transcriptionDisabled
             ELSE /\ transcriptionDisabled' =
                        [transcriptionDisabled EXCEPT ![r] = EffectiveDisable(query[1])]
                  /\ Goto(r, IF EffectiveDisable(query[1]) THEN "skip" ELSE "mark")
                  /\ UNCHANGED error
          /\ UNCHANGED <<world, store, useMediaServer, tempFile, pending, polls,
                         job, payload, result>>

\* Lines 174-180: transcription disabled: status SKIPPED, return success.
UpdateSkipped(r) ==
    /\ pc[r] = "skip"
    /\ \/ CallFails(r, "update", "SKIPPED")
       \/ /\ Log(r, "update", "SKIPPED", TRUE)
          /\ SetStatus(r, "SKIPPED")
          /\ Return(r, TRUE, "Transcription disabled - skipped")
          /\ UNCHANGED <<world, objects, locals, job, payload, error>>

\* Mutant of MarkProcessing: the update is left out.
MarkProcessingNoWrite(r) ==
    /\ pc[r] = "mark"
    /\ Goto(r, "bucket")
    /\ UNCHANGED <<world, store, locals, job, payload, error, result, calls>>

\* Lines 182-186: mark as processing.
MarkProcessing(r) ==
    /\ pc[r] = "mark"
    /\ \/ CallFails(r, "update", "PROCESSING")
       \/ /\ Log(r, "update", "PROCESSING", TRUE)
          /\ SetStatus(r, "PROCESSING")
          /\ Goto(r, "bucket")
          /\ UNCHANGED <<world, objects, locals, job, payload, error, result>>

\* Lines 188-193: S3Buckets.getBucketAccess(bucketId).
GetBucketAccess(r) ==
    /\ pc[r] = "bucket"
    /\ \/ CallFails(r, "getBucketAccess", "bucket")
       \/ /\ Log(r, "getBucketAccess", "bucket", TRUE)
          /\ Goto(r, "video_url")
          /\ UNCHANGED <<world, store, locals, job, payload, error, result>>

\* Lines 195-196: signed URL of the source video.
GetVideoUrl(r) ==
    /\ pc[r] = "video_url"
    /\ \/ CallFails(r, "getSignedObjectUrl", "result.mp4")
       \/ /\ Log(r, "getSignedObjectUrl", "result.mp4", TRUE)
          /\ Goto(r, "probe")
          /\ UNCHANGED <<world, store, locals, job, payload, error, result>>

\* Lines 198-204: range probe of the source video.
ProbeVideo(r) ==
    /\ pc[r] = "probe"
    /\ \/ CallFails(r, "fetch", "bytes=0-0")
       \/ /\ Log(r, "fetch", "bytes=0-0", FALSE)       \* !response.ok
          /\ Throw(r, Err("Video file not accessible"))
          /\ UNCHANGED <<world, store, locals, job, payload, result>>
       \/ /\ Log(r, "fetch", "bytes=0-0", TRUE)
          /\ Goto(r, "check_audio")
          /\ UNCHANGED <<world, store, locals, job, payload, error, result>>

\* Names of the two strategies' calls (lines 212/220 and 223/232).
CheckCall(remote)   == IF remote THEN "checkHasAudioTrackViaMediaServer"
                                 ELSE "checkHasAudioTrack"
ExtractCall(remote) == IF remote THEN "extractAudioViaMediaServer"
                                 ELSE "extractAudioFromUrl"

\* Lines 206-213 and 222-224: choose the strategy, check for an audio track.
CheckHasAudio(r) ==
    /\ pc[r] = "check_audio"
    /\ LET remote == env.mediaServer IN      \* isMediaServerConfigured()
       /\ useMediaServer' = [useMediaServer EXCEPT ![r] = remote]
       /\ \/ \E e \in ExternalFailures :
               /\ Log(r, CheckCall(remote), "videoUrl", FALSE)
               /\ Throw(r, e)
               /\ UNCHANGED result
          \/ \E hasAudio \in BOOLEAN :
               /\ Log(r, CheckCall(remote), IF hasAudio THEN "audio" ELSE "no audio", TRUE)
               /\ Goto(r, IF hasAudio THEN "extract" ELSE "no_audio")
               /\ UNCHANGED <<error, result>>
    /\ UNCHANGED <<world, store, transcriptionDisabled, tempFile, pending, polls,
                   job, payload>>

\* Mutant of UpdateNoAudio: the early return is missing, the run goes on to
\* the extraction.
UpdateNoAudioFallsThrough(r) ==
    /\ pc[r] = "no_audio"
    /\ \/ CallFails(r, "update", "NO_AUDIO")
       \/ /\ Log(r, "update", "NO_AUDIO", TRUE)
          /\ SetStatus(r, "NO_AUDIO")
          /\ Goto(r, "extract")
          /\ UNCHANGED <<world, objects, locals, job, payload, error, result>>

\* Lines 214-218 and 225-229: no audio track: status NO_AUDIO, return success.
UpdateNoAudio(r) ==
    /\ pc[r] = "no_audio"
    /\ \/ CallFails(r, "update", "NO_AUDIO")
       \/ /\ Log(r, "update", "NO_AUDIO", TRUE)
          /\ SetStatus(r, "NO_AUDIO")
          /\ Return(r, TRUE, "Video has no audio track - skipped")
          /\ UNCHANGED <<world, objects, locals, job, payload, error>>

\* Mutant of ExtractAudio: a failed remote extraction falls back to the local
\* strategy.
ExtractAudioFallsBack(r) ==
    /\ pc[r] = "extract"
    /\ \/ /\ ~useMediaServer[r]
          /\ CallFails(r, ExtractCall(FALSE), "videoUrl")
       \/ /\ useMediaServer[r]
          /\ Log(r, ExtractCall(TRUE), "videoUrl", FALSE)
          /\ useMediaServer' = [useMediaServer EXCEPT ![r] = FALSE]
          /\ UNCHANGED <<world, store, transcriptionDisabled, tempFile, pending,
                         polls, job, pc, payload, error, result>>
       \/ /\ Log(r, ExtractCall(useMediaServer[r]), "videoUrl", TRUE)
          /\ IF useMediaServer[r]
             THEN /\ Goto(r, "put_audio")
                  /\ UNCHANGED tempFile
             ELSE /\ Goto(r, "read_file")
                  /\ tempFile' = [tempFile EXCEPT ![r] = TRUE]
          /\ UNCHANGED <<world, store, transcriptionDisabled, useMediaServer,
                         pending, polls, job, payload, error, result>>

\* Lines 220 and 232: extract the audio with the chosen strategy.  The local
\* strategy leaves a temporary file (extractResult.filePath).
ExtractAudio(r) ==
    /\ pc[r] = "extract"
    /\ \/ CallFails(r, ExtractCall(useMediaServer[r]), "videoUrl")
       \/ /\ Log(r, ExtractCall(useMediaServer[r]), "videoUrl", TRUE)
          /\ IF useMediaServer[r]
             THEN /\ Goto(r, "put_audio")
                  /\ UNCHANGED tempFile
             ELSE /\ Goto(r, "read_file")
                  /\ tempFile' = [tempFile EXCEPT ![r] = TRUE]
          /\ UNCHANGED <<world, store, transcriptionDisabled, useMediaServer,
                         pending, polls, job, payload, error, result>>

\* Mutant of ReadFile: no finally block, a failed read throws at once.
ReadFileWithoutFinally(r) ==
    /\ pc[r] = "read_file"
    /\ \/ \E e \in ExternalFailures :
            /\ Log(r, "readFile", "filePath", FALSE)
            /\ Throw(r, e)
       \/ /\ Log(r, "readFile", "filePath", TRUE)
          /\ Goto(r, "cleanup")
          /\ UNCHANGED error
    /\ UNCHANGED <<world, store, transcriptionDisabled, useMediaServer, tempFile,
                   pending, polls, job, payload, result>>

\* Lines 233-234: fs.readFile inside try/finally; a failure is held until the
\* finally block has run.
ReadFile(r) ==
    /\ pc[r] = "read_file"
    /\ \/ \E e \in ExternalFailures :
            /\ Log(r, "readFile", "filePath", FALSE)
            /\ pending' = [pending EXCEPT ![r] = e]
       \/ /\ Log(r, "readFile", "filePath", TRUE)
          /\ UNCHANGED pending
    /\ Goto(r, "cleanup")
    /\ UNCHANGED <<world, store, transcriptionDisabled, useMediaServer, tempFile,
                   polls, job, payload, error, result>>

\* Lines 235-237: finally { await extractResult.cleanup() }.  A rejected
\* cleanup replaces the held error and may or may not have removed the file;
\* a completed one has removed it and rethrows the held error.
Cleanup(r) ==
    /\ pc[r] = "cleanup"
    /\ \/ \E e \in ExternalFailures, left \in BOOLEAN :
            /\ Log(r, "cleanup", "filePath", FALSE)
            /\ Throw(r, e)
            /\ tempFile' = [tempFile EXCEPT ![r] = left]
       \/ /\ Log(r, "cleanup", "filePath", TRUE)
          /\ tempFile' = [tempFile EXCEPT ![r] = FALSE]
          /\ IF pending[r] = NoError
             THEN Goto(r, "put_audio") /\ UNCHANGED error
             ELSE Throw(r, pending[r])
    /\ pending' = [pending EXCEPT ![r] = NoError]
    /\ UNCHANGED <<world, store, transcriptionDisabled, useMediaServer, polls,
                   job, payload, result>>

\* Lines 240-244: stage the audio under {userId}/{videoId}/audio-temp.mp3.
PutAudio(r) ==
    /\ pc[r] = "put_audio"
    /\ \/ CallFails(r, "putObject", "audio-temp.mp3")
       \/ /\ Log(r, "putObject", "audio-temp.mp3", TRUE)
          /\ objects' = [objects EXCEPT
                ![audioKey(payload[r].userId, payload[r].videoId)] =
                    [kind |-> "audio", by |-> r]]
          /\ Goto(r, "audio_url")
          /\ UNCHANGED <<world, transcriptionStatus, writes, locals, job, payload,
                         error, result>>

\* Lines 246-248: signed URL of the staged audio.
GetAudioSignedUrl(r) ==
    /\ pc[r] = "audio_url"
    /\ \/ CallFails(r, "getSignedObjectUrl", "audio-temp.mp3")
       \/ /\ Log(r, "getSignedObjectUrl", "audio-temp.mp3", TRUE)
          /\ Goto(r, "submit")
          /\ UNCHANGED <<world, store, locals, job, payload, error, result>>

\* Lines 76-104 (called at line 251): key check, then the submit request.
Submit(r) ==
    /\ pc[r] = "submit"
    /\ IF ~env.apiKey
       THEN /\ Throw(r, Err("Missing ASSEMBLYAI_API_KEY"))
            /\ UNCHANGED <<world, store, locals, job, payload, result, calls>>
       ELSE \/ CallFails(r, "submit", "audioSignedUrl")   \* fetch or json() rejects
            \/ /\ Log(r, "submit", "audioSignedUrl", FALSE)   \* !submitResponse.ok
               /\ Throw(r, Err("AssemblyAI submit failed"))
               /\ UNCHANGED <<world, store, locals, job, payload, result>>
            \/ /\ Log(r, "submit", "audioSignedUrl", TRUE)
               /\ job' = [job EXCEPT ![r] = "queued"]
               /\ Goto(r, "poll")
               /\ UNCHANGED <<world, store, locals, payload, error, result>>

\* The provider works on a submitted job: queued -> processing -> completed
\* or error (the status values read at lines 119-126).  The job is followed
\* while its run is in the poll loop, the only place that reads it.
ProviderStep(r) ==
    /\ pc[r] = "poll"
    /\ \/ /\ job[r] = "queued"
          /\ \E s \in {"processing", "error"} : job' = [job EXCEPT ![r] = s]
       \/ /\ job[r] = "processing"
          /\ \E s \in {"completed", "error"} : job' = [job EXCEPT ![r] = s]
    /\ UNCHANGED <<world, store, locals, pc, payload, error, result, calls>>

\* Mutant of Poll: a not-ok poll response is retried instead of thrown.
PollRetriesNotOk(r) ==
    /\ pc[r] = "poll"
    /\ \/ CallFails(r, "poll", "job")
       \/ /\ polls[r] < MaxPolls
          /\ Log(r, "poll", "job", FALSE)
          /\ polls' = [polls EXCEPT ![r] = @ + 1]
          /\ UNCHANGED <<world, store, transcriptionDisabled, useMediaServer,
                         tempFile, pending, job, pc, payload, error, result>>
       \/ /\ job[r] = "completed"
          /\ Log(r, "poll", "completed", TRUE)
          /\ Goto(r, "put_vtt")
          /\ UNCHANGED <<world, store, locals, job, payload, error, result>>
       \/ /\ job[r] = "error"
          /\ Log(r, "poll", "error", TRUE)
          /\ Throw(r, Err("AssemblyAI error"))
          /\ UNCHANGED <<world, store, locals, job, payload, result>>
       \/ /\ job[r] \in {"queued", "processing"}
          /\ polls[r] < MaxPolls
          /\ Log(r, "poll", job[r], TRUE)
          /\ polls' = [polls EXCEPT ![r] = @ + 1]
          /\ UNCHANGED <<world, store, transcriptionDisabled, useMediaServer,
                         tempFile, pending, job, pc, payload, error, result>>

\* Lines 106-129: one turn of the poll loop (wait, fetch, read the status).
Poll(r) ==
    /\ pc[r] = "poll"
    /\ \/ CallFails(r, "poll", "job")                  \* fetch or json() rejects
       \/ /\ Log(r, "poll", "job", FALSE)                 \* !pollResponse.ok
          /\ Throw(r, Err("AssemblyAI poll failed"))
          /\ UNCHANGED <<world, store, locals, job, payload, result>>
       \/ /\ job[r] = "completed"
          /\ Log(r, "poll", "completed", TRUE)
          /\ Goto(r, "put_vtt")                           \* break; formatToWebVTT
          /\ UNCHANGED <<world, store, locals, job, payload, error, result>>
       \/ /\ job[r] = "error"
          /\ Log(r, "poll", "error", TRUE)
          /\ Throw(r, Err("AssemblyAI error"))
          /\ UNCHANGED <<world, store, locals, job, payload, result>>
       \/ /\ job[r] \in {"queued", "processing"}
          /\ polls[r] < MaxPolls
          /\ Log(r, "poll", job[r], TRUE)
          /\ polls' = [polls EXCEPT ![r] = @ + 1]
          /\ UNCHANGED <<world, store, transcriptionDisabled, useMediaServer,
                         tempFile, pending, job, pc, payload, error, result>>

\* Mutant of PutTranscription: a rejected put is ignored and the run goes on.
PutTranscriptionIgnoresFailure(r) ==
    /\ pc[r] = "put_vtt"
    /\ \/ /\ Log(r, "putObject", "transcription.vtt", FALSE)
          /\ UNCHANGED objects
       \/ /\ Log(r, "putObject", "transcription.vtt", TRUE)
          /\ objects' = [objects EXCEPT
                ![transcriptionKey(payload[r].userId, payload[r].videoId)] =
                    [kind |-> "vtt", by |-> r]]
    /\ Goto(r, "complete")
    /\ UNCHANGED <<world, transcriptionStatus, writes, locals, job, payload,
                   error, result>>

\* Lines 253-258: store the subtitle artifact.
PutTranscription(r) ==
    /\ pc[r] = "put_vtt"
    /\ \/ CallFails(r, "putObject", "transcription.vtt")
       \/ /\ Log(r, "putObject", "transcription.vtt", TRUE)
          /\ objects' = [objects EXCEPT
                ![transcriptionKey(payload[r].userId, payload[r].videoId)] =
                    [kind |-> "vtt", by |-> r]]
          /\ Goto(r, "complete")
          /\ UNCHANGED <<world, transcriptionStatus, writes, locals, job, payload,
                         error, result>>

\* Lines 260-263: status COMPLETE.
UpdateComplete(r) ==
    /\ pc[r] = "complete"
    /\ \/ CallFails(r, "update", "COMPLETE")
       \/ /\ Log(r, "update", "COMPLETE", TRUE)
          /\ SetStatus(r, "COMPLETE")
          /\ Goto(r, "delete_audio")
          /\ UNCHANGED <<world, objects, locals, job, payload, error, result>>

\* Mutant of DeleteTempAudio: the delete is not wrapped in try/catch, its
\* failure reaches the failure handler.
DeleteTempAudioPropagates(r) ==
    /\ pc[r] = "delete_audio"
    /\ \/ CallFails(r, "deleteObject", "audio-temp.mp3")
       \/ /\ Log(r, "deleteObject", "audio-temp.mp3", TRUE)
          /\ objects' = [objects EXCEPT
                ![audioKey(payload[r].userId, payload[r].videoId)] = NoObject]
          /\ Return(r, TRUE, "Transcription completed successfully")
          /\ UNCHANGED <<world, transcriptionStatus, writes, locals, job, payload, error>>

\* Mutant of DeleteTempAudio: the delete is issued for the artifact's key,
\* the staged audio stays.
DeleteTempAudioWrongKey(r) ==
    /\ pc[r] = "delete_audio"
    /\ \/ /\ Log(r, "deleteObject", "audio-temp.mp3", FALSE)
          /\ UNCHANGED objects
       \/ /\ Log(r, "deleteObject", "audio-temp.mp3", TRUE)
          /\ objects' = [objects EXCEPT
                ![transcriptionKey(payload[r].userId, payload[r].videoId)] = NoObject]
    /\ Return(r, TRUE, "Transcription completed successfully")
    /\ UNCHANGED <<world, transcriptionStatus, writes, locals, job, payload, error>>

\* Lines 265-278: best-effort delete of the staged audio (its failure is
\* caught and logged at lines 268-270), then the success return.  The call
\* of startAiGeneration at lines 272-275 is commented out: no step issues it.
DeleteTempAudio(r) ==
    /\ pc[r] = "delete_audio"
    /\ \/ /\ Log(r, "deleteObject", "audio-temp.mp3", FALSE)
          /\ UNCHANGED objects
       \/ /\ Log(r, "deleteObject", "audio-temp.mp3", TRUE)
          /\ objects' = [objects EXCEPT
                ![audioKey(payload[r].userId, payload[r].videoId)] = NoObject]
    /\ Return(r, TRUE, "Transcription completed successfully")
    /\ UNCHANGED <<world, transcriptionStatus, writes, locals, job, payload, error>>

\* Mutant of CatchReset: the reset is applied only to a row still PROCESSING.
CatchResetGuarded(r) ==
    /\ pc[r] = "catch"
    /\ \/ \E e \in ExternalFailures :
            /\ Log(r, "update", "UNSET", FALSE)
            /\ pc' = [pc EXCEPT ![r] = "threw"]
            /\ error' = [error EXCEPT ![r] = e]
            /\ UNCHANGED <<transcriptionStatus, writes, result>>
       \/ /\ Log(r, "update", "UNSET", TRUE)
          /\ IF transcriptionStatus[payload[r].videoId] = "PROCESSING"
             THEN SetStatus(r, "UNSET")
             ELSE UNCHANGED <<transcriptionStatus, writes>>
          /\ Return(r, FALSE, MessageOf(error[r]))
          /\ UNCHANGED error
    /\ UNCHANGED <<world, objects, locals, job, payload>>

\* Lines 280-293: the failure handler: reset the status, return the failure.
\* The reset update is awaited inside the catch block, outside any try: when
\* it rejects, the promise of transcribeVideoDirect rejects with its error.
CatchReset(r) ==
    /\ pc[r] = "catch"
    /\ \/ \E e \in ExternalFailures :
            /\ Log(r, "update", "UNSET", FALSE)
            /\ pc' = [pc EXCEPT ![r] = "threw"]
            /\ error' = [error EXCEPT ![r] = e]
            /\ UNCHANGED <<transcriptionStatus, writes, result>>
       \/ /\ Log(r, "update", "UNSET", TRUE)
          /\ SetStatus(r, "UNSET")
          /\ Return(r, FALSE, MessageOf(error[r]))
          /\ UNCHANGED error
    /\ UNCHANGED <<world, objects, locals, job, payload>>

\* One step of run r.
Step(r) ==
    \/ CheckAssemblyKey(r)
    \/ QueryVideo(r)
    \/ UpdateSkipped(r)
    \/ MarkProcessing(r)
    \/ GetBucketAccess(r)
    \/ GetVideoUrl(r)
    \/ ProbeVideo(r)
    \/ CheckHasAudio(r)
    \/ UpdateNoAudio(r)
    \/ ExtractAudio(r)
    \/ ReadFile(r)
    \/ Cleanup(r)
    \/ PutAudio(r)
    \/ GetAudioSignedUrl(r)
    \/ Submit(r)
    \/ ProviderStep(r)
    \/ Poll(r)
    \/ PutTranscription(r)
    \/ UpdateComplete(r)
    \/ DeleteTempAudio(r)
    \/ CatchReset(r)

\* ------------------------------------------------------------ initial states
\* Payloads a caller may pass (line 135).
Payloads == [videoId : VideoIds, userId : UserIds, aiGenerationEnabled : BOOLEAN]

\* State shared by every specification: an empty bucket, no run started.
InitCommon ==
    /\ env \in [apiKey : BOOLEAN, mediaServer : BOOLEAN]
    /\ objects = [k \in ObjectKeys |-> NoObject]
    /\ job = [r \in Runs |-> "none"]
    /\ transcriptionDisabled = [r \in Runs |-> FALSE]
    /\ useMediaServer = [r \in Runs |-> FALSE]
    /\ tempFile = [r \in Runs |-> FALSE]
    /\ pending = [r \in Runs |-> NoError]
    /\ error = [r \in Runs |-> NoError]
    /\ result = [r \in Runs |-> NoResult]
    /\ polls = [r \in Runs |-> 0]
    /\ calls = [r \in Runs |-> <<>>]
    /\ writes = [r \in Runs |-> <<>>]

\* One invocation, r1, of any payload, on a video in any condition (absent,
\* without owner row, any settings, any status left by earlier runs); the
\* other video is a plain row.
Init ==
    /\ InitCommon
    /\ fmt = NoFormat
    /\ \E p \in Payloads :
         /\ payload = [r \in Runs |-> IF r = "r1" THEN p ELSE NoPayload]
         /\ \E row \in VideoRows \cup {AbsentRow}, s \in Statuses, t \in {"UNSET", "COMPLETE"} :
              /\ ~row.present => s = "UNSET"
              /\ videos = [v \in VideoIds |-> IF v = p.videoId THEN row ELSE PlainRow]
              /\ transcriptionStatus = [v \in VideoIds |-> IF v = p.videoId THEN s ELSE t]
    /\ pc = [r \in Runs |-> IF r = "r1" THEN "start" ELSE "idle"]
    /\ statusAtCall = transcriptionStatus

Next == \E r \in {"r1"} : Step(r)

\* A single run of transcribeVideoDirect.
Spec == Init /\ [][Next]_vars

\* Two invocations in flight at once, for the same video of one user or for
\* the videos of two users,
\* with the credential configured and the local extraction strategy; the
\* videos are plain rows with status UNSET, or the second run's video has
\* transcription disabled.  SpecSameVideo and SpecDistinctVideos are its two
\* halves.
InitConcurrent ==
    /\ InitCommon
    /\ fmt = NoFormat
    /\ env = [apiKey |-> TRUE, mediaServer |-> FALSE]
    /\ payload \in [Runs -> Payloads]
    /\ payload["r1"] = [videoId |-> "v1", userId |-> "u1", aiGenerationEnabled |-> TRUE]
    /\ ~payload["r2"].aiGenerationEnabled
    /\ \/ payload["r2"].videoId = "v1" /\ payload["r2"].userId = "u1"
       \/ payload["r2"].videoId = "v2" /\ payload["r2"].userId = "u2"
    /\ videos \in [VideoIds -> {PlainRow, [PlainRow EXCEPT !.settings = "true"]}]
    /\ videos["v1"] # PlainRow => payload["r2"].videoId = "v1"
    /\ videos["v2"] # PlainRow => payload["r2"].videoId = "v2"
    /\ transcriptionStatus = [v \in VideoIds |-> "UNSET"]
    /\ pc = [r \in Runs |-> "start"]
    /\ statusAtCall = transcriptionStatus

NextConcurrent == \E r \in Runs : Step(r)

SpecConcurrent == InitConcurrent /\ [][NextConcurrent]_vars

\* Both invocations for video v1 of user u1.
InitSameVideo == InitConcurrent /\ payload["r2"].videoId = "v1"

SpecSameVideo == InitSameVideo /\ [][NextConcurrent]_vars

\* One invocation for video v1 of user u1, one for video v2 of user u2.
InitDistinctVideos == InitConcurrent /\ payload["r2"].videoId = "v2"

SpecDistinctVideos == InitDistinctVideos /\ [][NextConcurrent]_vars

\* One run on a video with its credential configured, whose external calls
\* all answer (each enabled step of the run is eventually taken) and whose
\* provider job moves on until it is completed or in error.
InitFair ==
    /\ InitCommon
    /\ fmt = NoFormat
    /\ env.apiKey
    /\ payload = [r \in Runs |->
                    IF r = "r1"
                    THEN [videoId |-> "v1", userId |-> "u1", aiGenerationEnabled |-> FALSE]
                    ELSE NoPayload]
    /\ \E row \in VideoRows :
         /\ row.owner /\ row.fields /\ row.orgSettings = "null"
         /\ videos = [v \in VideoIds |-> IF v = "v1" THEN row ELSE PlainRow]
    /\ transcriptionStatus = [v \in VideoIds |-> "UNSET"]
    /\ pc = [r \in Runs |-> IF r = "r1" THEN "start" ELSE "idle"]
    /\ statusAtCall = transcriptionStatus

SpecFair ==
    /\ InitFair
    /\ [][Next]_vars
    /\ WF_vars(Step("r1"))
    /\ WF_vars(ProviderStep("r1"))

\* ------------------------------------------- the formatter on its own
\* Millisecond values given to formatTime.
TimeInputs ==
    (0..MaxSmallMs)
    \cup { h * 3600000 + m * 60000 + sec * 1000 + ms :
             h \in {0, 1, 9, 10, 99, MaxHours}, m \in {0, 1, 59},
             sec \in {0, 1, 59}, ms \in {0, 5, 99, 100, 999} }

\* Utterances of a result (AssemblyAIUtterance, lines 30-35).
Utterances ==
    { [speaker |-> sp, text |-> tx, start |-> w[1], end |-> w[2]] :
        sp \in {<<"A">>, <<"B">>}, tx \in {<<"hi">>, <<"bye">>},
        w \in {<<0, 1000>>, <<1000, 2500>>, <<3599999, 3661005>>} }

UtteranceSeqs == UNION {[1..n -> Utterances] : n \in 0..MaxUtterances}

\* Results of a completed job (AssemblyAIResult, lines 37-43): utterances
\* absent, empty or given; text absent, empty or given.
Results ==
    { [hasUtterances |-> hu, utterances |-> us, hasText |-> ht, text |-> tx] :
        hu \in BOOLEAN, us \in UtteranceSeqs, ht \in BOOLEAN,
        tx \in {<<>>, <<"plain text">>} }

WellFormedResult(res) ==
    /\ ~res.hasUtterances => res.utterances = <<>>
    /\ ~res.hasText => res.text = <<>>

\* One call of the formatter, not yet answered.
InitFormat ==
    /\ InitCommon
    /\ \/ \E ms \in TimeInputs :
            fmt = [op |-> "formatTime", arg |-> ms, out |-> <<>>, done |-> FALSE]
       \/ \E res \in Results :
            /\ WellFormedResult(res)
            /\ fmt = [op |-> "formatToWebVTT", arg |-> res, out |-> <<>>, done |-> FALSE]
    /\ env = [apiKey |-> TRUE, mediaServer |-> FALSE]
    /\ payload = [r \in Runs |-> NoPayload]
    /\ videos = [v \in VideoIds |-> PlainRow]
    /\ transcriptionStatus = [v \in VideoIds |-> "UNSET"]
    /\ pc = [r \in Runs |-> "idle"]
    /\ statusAtCall = transcriptionStatus

pipeline == <<env, videos, transcriptionStatus, objects, job, pc, payload,
              transcriptionDisabled, useMediaServer, tempFile, pending, error,
              result, polls, calls, writes, statusAtCall>>

\* A call formatTime(ms).
FormatTimeCall ==
    /\ fmt.op = "formatTime" /\ ~fmt.done
    /\ fmt' = [fmt EXCEPT !.out = formatTime(fmt.arg), !.done = TRUE]
    /\ UNCHANGED pipeline

\* A call formatToWebVTT(result), as at line 129.
FormatToWebVTTCall ==
    /\ fmt.op = "formatToWebVTT" /\ ~fmt.done
    /\ fmt' = [fmt EXCEPT !.out = formatToWebVTT(fmt.arg), !.done = TRUE]
    /\ UNCHANGED pipeline

NextFormat == FormatTimeCall \/ FormatToWebVTTCall

SpecFormat == InitFormat /\ [][NextFormat]_vars

\* ------------------------------------------------------- reading the history
Returned(r) == pc[r] = "returned"
Ended(r)    == pc[r] \in {"returned", "threw"}

Issued(r, c, a)     == \E i \in DOMAIN calls[r] : calls[r][i].call = c /\ calls[r][i].arg = a
Succeeded(r, c, a)  == \E i \in DOMAIN calls[r] :
                          calls[r][i] = [call |-> c, arg |-> a, ok |-> TRUE]
Rejected(r, c, a)   == \E i \in DOMAIN calls[r] :
                          calls[r][i] = [call |-> c, arg |-> a, ok |-> FALSE]
IssuedCall(r, c)    == \E i \in DOMAIN calls[r] : calls[r][i].call = c

StatusOf(r) == transcriptionStatus[payload[r].videoId]

\* A step of run r failed after its PROCESSING update succeeded: a call other
\* than the reset update and the best-effort delete was rejected or answered
\* not-ok, or the provider's job ended in error.
FailedAfterProcessing(r) ==
    \E i, j \in DOMAIN calls[r] :
        /\ i < j
        /\ calls[r][i] = [call |-> "update", arg |-> "PROCESSING", ok |-> TRUE]
        /\ \/ /\ ~calls[r][j].ok
              /\ calls[r][j].call # "deleteObject"
              /\ ~(calls[r][j].call = "update" /\ calls[r][j].arg = "UNSET")
           \/ calls[r][j] = [call |-> "poll", arg |-> "error", ok |-> TRUE]

\* Calls to object storage, to an extractor and to the provider.
StorageCalls    == {"getBucketAccess", "getSignedObjectUrl", "putObject", "deleteObject"}
ExtractionCalls == {"extractAudioViaMediaServer", "extractAudioFromUrl"}
ProviderCalls   == {"submit", "poll"}

\* --------------------------------------------------------------------- C1
\* C1: a run never ends by propagating an error to its caller: whatever
\* external call fails, the reset update included, it ends by returning a
\* {success, message} value.
C1_NeverPropagates ==
    \A r \in Runs : pc[r] # "threw"

\* --------------------------------------------------------------------- C2
\* C2: when a step fails after the status was set to PROCESSING, the run
\* returns success = false with the error text as message and the status of
\* its video at return is UNSET.
C2_FailureAfterProcessingResets ==
    \A r \in Runs :
        (Ended(r) /\ FailedAfterProcessing(r)) =>
            /\ Returned(r)
            /\ result[r] = [success |-> FALSE, message |-> MessageOf(error[r])]
            /\ StatusOf(r) = "UNSET"

\* --------------------------------------------------------------------- C5
\* C5: whenever a run has handed control back to its caller, the status of
\* its video is not PROCESSING, whatever external calls failed.  (A status
\* that was already PROCESSING at the call, left by a crashed run, is the
\* exception the invariant itself makes, and is not counted here.)
C5_NotProcessingAfterReturn ==
    \A r \in Runs :
        (Ended(r) /\ statusAtCall[payload[r].videoId] # "PROCESSING") =>
            StatusOf(r) \in {"COMPLETE", "SKIPPED", "NO_AUDIO", "UNSET"}

\* --------------------------------------------------------------------- C7
\* C7: when the API credential is missing, the run fails with success = false
\* and writes no status: the status of its video after the run is the status
\* it had before the run (COMPLETE, SKIPPED, NO_AUDIO or UNSET).
C7_MissingKeyLeavesStatus ==
    \A r \in Runs :
        ( /\ Returned(r)
          /\ ~env.apiKey
          /\ error[r] = Err("Missing ASSEMBLYAI_API_KEY")
          /\ statusAtCall[payload[r].videoId] # "PROCESSING" ) =>
            /\ ~result[r].success
            /\ StatusOf(r) = statusAtCall[payload[r].videoId]

\* --------------------------------------------------------------------- C8
\* C8: when the metadata read finds no video for the id, or a row whose video
\* fields are missing, the run fails with success = false and the status of
\* every video record is left unchanged.
C8_NotFoundLeavesStatus ==
    \A r \in Runs :
        ( /\ Returned(r)
          /\ Succeeded(r, "select", "videos")
          /\ \/ Len(Query(payload[r].videoId)) = 0
             \/ ~Query(payload[r].videoId)[1].fields ) =>
            /\ ~result[r].success
            /\ \A v \in VideoIds : transcriptionStatus[v] = statusAtCall[v]

\* --------------------------------------------------------------------- C3
\* The effective disable-transcript flag as the claim words it: the video's
\* setting if set, else the organization's, else false.
FlagOf(row) ==
    \/ row.settings = "true"
    \/ row.settings = "null" /\ row.orgSettings = "true"

\* The run read the row of its video and that row's effective flag is true.
ReadDisabled(r) ==
    /\ Succeeded(r, "select", "videos")
    /\ Len(Query(payload[r].videoId)) = 1
    /\ Query(payload[r].videoId)[1].fields
    /\ FlagOf(Query(payload[r].videoId)[1])

NoPipelineCalls(r) ==
    /\ ~Issued(r, "update", "PROCESSING")
    /\ \A c \in StorageCalls \cup ExtractionCalls \cup ProviderCalls : ~IssuedCall(r, c)

\* C3 as stated: whenever the effective disable flag of the video is true, a
\* run returns success = true with final status SKIPPED, never sets
\* PROCESSING and makes no storage, extraction or provider call.  (Stated for
\* the runs that got as far as reading the flag.)
C3_DisabledAlwaysSkipped ==
    \A r \in Runs :
        (Ended(r) /\ ReadDisabled(r)) =>
            /\ Returned(r)
            /\ result[r].success
            /\ StatusOf(r) = "SKIPPED"
            /\ NoPipelineCalls(r)

\* C3 amended: once the run has read a row whose effective flag is true, it
\* never sets PROCESSING and makes no storage, extraction or provider call;
\* and when its SKIPPED update succeeds it returns success = true with final
\* status SKIPPED (when that update is rejected, the failure handler runs).
C3_DisabledSkipsPipeline ==
    \A r \in Runs :
        ReadDisabled(r) =>
            /\ NoPipelineCalls(r)
            /\ pc[r] \in {"skip", "catch", "returned", "threw"}
            /\ (Ended(r) /\ Succeeded(r, "update", "SKIPPED")) =>
                   /\ Returned(r)
                   /\ result[r] = [success |-> TRUE,
                                   message |-> "Transcription disabled - skipped"]
                   /\ StatusOf(r) = "SKIPPED"
            /\ (Ended(r) /\ ~Succeeded(r, "update", "SKIPPED")) =>
                   (Returned(r) => ~result[r].success /\ StatusOf(r) = "UNSET")

\* A run on a video whose own setting is true although the organization's is
\* false has returned SKIPPED.
C3_Witness ==
    \E r \in Runs :
        /\ Returned(r) /\ ReadDisabled(r)
        /\ videos[payload[r].videoId].settings = "true"
        /\ videos[payload[r].videoId].orgSettings = "false"
        /\ result[r].success /\ StatusOf(r) = "SKIPPED"

\* --------------------------------------------------------------------- C4
\* The audio-track check of the run's strategy answered: no audio track.
NoAudioReported(r) ==
    \E c \in {CheckCall(TRUE), CheckCall(FALSE)} : Succeeded(r, c, "no audio")

NoTranscriptionWork(r) ==
    /\ \A c \in ExtractionCalls \cup ProviderCalls : ~IssuedCall(r, c)
    /\ ~Issued(r, "putObject", "audio-temp.mp3")

\* C4 as stated: when the check reports no audio track, the run returns
\* success = true with final status NO_AUDIO, and neither extracts, stages
\* audio, nor calls the provider.
C4_NoAudioAlwaysSucceeds ==
    \A r \in Runs :
        (Ended(r) /\ NoAudioReported(r)) =>
            /\ Returned(r)
            /\ result[r].success
            /\ StatusOf(r) = "NO_AUDIO"
            /\ NoTranscriptionWork(r)

\* C4 amended: for both strategies, once the check has reported no audio
\* track the run neither extracts, stages audio, nor calls the provider; and
\* when its NO_AUDIO update succeeds it returns success = true with final
\* status NO_AUDIO (when that update is rejected the run fails: success =
\* false, status reset to UNSET by the failure handler).
C4_NoAudioStopsPipeline ==
    \A r \in Runs :
        NoAudioReported(r) =>
            /\ NoTranscriptionWork(r)
            /\ (Ended(r) /\ Succeeded(r, "update", "NO_AUDIO")) =>
                   /\ Returned(r)
                   /\ result[r] = [success |-> TRUE,
                                   message |-> "Video has no audio track - skipped"]
                   /\ StatusOf(r) = "NO_AUDIO"
            /\ (Returned(r) /\ ~Succeeded(r, "update", "NO_AUDIO")) =>
                   ~result[r].success /\ StatusOf(r) = "UNSET"

\* A run has returned NO_AUDIO after its check reported no audio track.
C4_Witness ==
    \E r \in Runs :
        /\ Returned(r) /\ NoAudioReported(r)
        /\ result[r].success /\ StatusOf(r) = "NO_AUDIO"

\* --------------------------------------------------------------------- C6
\* The transitions the status state machine of the data model allows.
AllowedTransitions ==
    {<<"UNSET", "PROCESSING">>, <<"PROCESSING", "COMPLETE">>,
     <<"PROCESSING", "SKIPPED">>, <<"PROCESSING", "NO_AUDIO">>,
     <<"PROCESSING", "UNSET">>}

\* C6 as stated: every status write of a run is one of UNSET -> PROCESSING,
\* PROCESSING -> COMPLETE / SKIPPED / NO_AUDIO / UNSET.  (Stated for the
\* writes that change the status.)
C6_OnlyAllowedTransitions ==
    \A r \in Runs : \A i \in DOMAIN writes[r] :
        writes[r][i].from # writes[r][i].to =>
            <<writes[r][i].from, writes[r][i].to>> \in AllowedTransitions

\* C6 amended: the updates are unconditional.  A run executing alone writes
\* PROCESSING, SKIPPED or UNSET onto whatever status the video has (SKIPPED
\* and PROCESSING only as its first write), and writes COMPLETE or NO_AUDIO
\* only onto PROCESSING; after its own PROCESSING it writes at most one of
\* COMPLETE, NO_AUDIO, UNSET.
C6_WritesOfARun ==
    \A r \in Runs :
        /\ Len(writes[r]) <= 2
        /\ \A i \in DOMAIN writes[r] :
             LET w == writes[r][i] IN
             /\ w.video = payload[r].videoId
             /\ w.to \in {"COMPLETE", "NO_AUDIO"} => w.from = "PROCESSING"
             /\ w.to \in {"SKIPPED", "PROCESSING"} => i = 1
             /\ i = 2 => /\ writes[r][1].to = "PROCESSING"
                         /\ w.from = "PROCESSING"
                         /\ w.to \in {"COMPLETE", "NO_AUDIO", "UNSET"}

\* A run has written PROCESSING onto a status left by an earlier run, then
\* COMPLETE onto its own PROCESSING.
C6_Witness ==
    \E r \in Runs :
        /\ Len(writes[r]) = 2
        /\ writes[r][1] = [video |-> payload[r].videoId, from |-> "COMPLETE",
                           to |-> "PROCESSING"]
        /\ writes[r][2].to = "COMPLETE"

\* --------------------------------------------------------------------- C9
\* C9: when every step up to and including the COMPLETE update succeeded and
\* only the delete of the staged audio fails, the run returns success = true,
\* the final status is COMPLETE and no status reset is issued.
C9_CleanupFailureIsNotFatal ==
    \A r \in Runs :
        (Ended(r) /\ Rejected(r, "deleteObject", "audio-temp.mp3")) =>
            /\ Returned(r)
            /\ result[r] = [success |-> TRUE,
                            message |-> "Transcription completed successfully"]
            /\ StatusOf(r) = "COMPLETE"
            /\ ~Issued(r, "update", "UNSET")

\* A run whose delete of the staged audio was rejected has ended, the staged
\* audio still in the bucket.
C9_Witness ==
    \E r \in Runs :
        /\ Ended(r)
        /\ Succeeded(r, "update", "COMPLETE")
        /\ Rejected(r, "deleteObject", "audio-temp.mp3")
        /\ objects[audioKey(payload[r].userId, payload[r].videoId)].kind = "audio"

\* -------------------------------------------------------------------- C10
StagedBy(r) == objects[audioKey(payload[r].userId, payload[r].videoId)]
                  = [kind |-> "audio", by |-> r]

\* Staged audio objects in the bucket that belong to one video.
StagedOf(v) == {u \in UserIds : objects[audioKey(u, v)].kind = "audio"}

CallsTo(r, c) == {i \in DOMAIN calls[r] : calls[r][i].call = c}

\* C11: a run called with aiGenerationEnabled = true that reached COMPLETE
\* has invoked startAiGeneration once, after its COMPLETE update, by the time
\* it returns; a run called with aiGenerationEnabled = false never invokes it.
C11_AiGenerationTriggered ==
    \A r \in Runs :
        /\ (Returned(r) /\ Succeeded(r, "update", "COMPLETE")
                        /\ payload[r].aiGenerationEnabled) =>
              /\ Cardinality(CallsTo(r, "startAiGeneration")) = 1
              /\ \A i \in CallsTo(r, "startAiGeneration") :
                     \E j \in 1..(i - 1) :
                         calls[r][j] = [call |-> "update", arg |-> "COMPLETE", ok |-> TRUE]
              /\ result[r].success
        /\ ~payload[r].aiGenerationEnabled => CallsTo(r, "startAiGeneration") = {}

\* -------------------------------------------------------------------- C12
\* A provider call that makes transcribeWithAssemblyAI throw: a rejected or
\* not-ok submit or poll, or a poll that read the status error.
ProviderFailure(c) ==
    /\ c.call \in ProviderCalls
    /\ \/ ~c.ok
       \/ c = [call |-> "poll", arg |-> "error", ok |-> TRUE]

\* transcribeWithAssemblyAI has returned its transcript to line 251.
TranscriptReturned(r) ==
    pc[r] \in {"put_vtt", "complete", "delete_audio"}
        \/ Issued(r, "putObject", "transcription.vtt")

\* C12: submit-then-poll.  A poll is issued only after the one submit
\* succeeded; the transcript is returned only when the most recent poll read
\* the status completed; a failed submit, a failed poll or a polled status
\* error ends the provider calls at once (no further poll, no retry) and the
\* run is in its failure handler.
C12_SubmitThenPoll ==
    \A r \in Runs :
        /\ Cardinality(CallsTo(r, "submit")) <= 1
        /\ \A j \in CallsTo(r, "poll") :
               \E i \in 1..(j - 1) :
                   calls[r][i] = [call |-> "submit", arg |-> "audioSignedUrl", ok |-> TRUE]
        /\ TranscriptReturned(r) =>
               /\ CallsTo(r, "poll") # {}
               /\ \A j \in CallsTo(r, "poll") :
                      (\A k \in CallsTo(r, "poll") : k <= j) =>
                          calls[r][j] = [call |-> "poll", arg |-> "completed", ok |-> TRUE]
        /\ \A j \in DOMAIN calls[r] :
               ProviderFailure(calls[r][j]) =>
                   /\ \A k \in (j + 1)..Len(calls[r]) : calls[r][k].call \notin ProviderCalls
                   /\ ~TranscriptReturned(r)
                   /\ pc[r] \in {"catch", "returned", "threw"}
                   /\ Returned(r) => ~result[r].success

\* A run has polled a job still in progress, polled again, read completed
\* and stored the artifact.
C12_Witness ==
    \E r \in Runs :
        /\ Succeeded(r, "poll", "processing")
        /\ Succeeded(r, "poll", "completed")
        /\ Succeeded(r, "putObject", "transcription.vtt")

\* ------------------------------------------------------------------- C13
\* The decimal digits of n, most significant first, on at least `width` places.
DecimalOn(n, width) ==
    LET places == CHOOSE k \in 1..9 : (k = 1 \/ n >= 10^(k - 1)) /\ n < 10^k
        shown  == IF places < width THEN width ELSE places
    IN  [i \in 1..shown |-> Digits[((n \div 10^(shown - i)) % 10) + 1]]

\* HH:MM:SS.mmm of m, with the fields computed from m by division.
ClockOf(m) ==
    DecimalOn(m \div 3600000, 2) \o <<":">>
    \o DecimalOn((m \div 60000) % 60, 2) \o <<":">>
    \o DecimalOn((m \div 1000) % 60, 2) \o <<".">>
    \o DecimalOn(m % 1000, 3)

\* C13: for every millisecond value m >= 0 of the range, formatTime(m) is
\* HH:MM:SS.mmm with HH = m div 3600000 on at least 2 digits,
\* MM = (m div 60000) mod 60 on 2 digits, SS = (m div 1000) mod 60 on 2 digits
\* and mmm = m mod 1000 on 3 digits; formatTime(0) = "00:00:00.000",
\* formatTime(59999) = "00:00:59.999", formatTime(3661005) = "01:01:01.005".
C13_FormatTime ==
    (fmt.op = "formatTime" /\ fmt.done) =>
        /\ fmt.out = ClockOf(fmt.arg)
        /\ Len(fmt.out) >= 12
        /\ fmt.arg = 0 =>
             fmt.out = <<"0", "0", ":", "0", "0", ":", "0", "0", ".", "0", "0", "0">>
        /\ fmt.arg = 59999 =>
             fmt.out = <<"0", "0", ":", "0", "0", ":", "5", "9", ".", "9", "9", "9">>
        /\ fmt.arg = 3661005 =>
             fmt.out = <<"0", "1", ":", "0", "1", ":", "0", "1", ".", "0", "0", "5">>

\* A value of a hundred hours or more has been formatted, on 13 characters.
C13_Witness ==
    /\ fmt.op = "formatTime" /\ fmt.done
    /\ fmt.arg >= 100 * 3600000
    /\ Len(fmt.out) = 13
    /\ fmt.out = ClockOf(fmt.arg)

\* ------------------------------------------------------------------- C14
\* The lines of a text: its pieces between the line breaks.
RECURSIVE LinesOf(_)
LinesOf(text) ==
    IF \A i \in DOMAIN text : text[i] # "\n" THEN <<text>>
    ELSE LET cut == CHOOSE i \in DOMAIN text :
                        text[i] = "\n" /\ \A j \in 1..(i - 1) : text[j] # "\n"
         IN  <<SubSeq(text, 1, cut - 1)>> \o LinesOf(SubSeq(text, cut + 1, Len(text)))

\* C14: the output of formatToWebVTT starts with the line WEBVTT and a blank
\* line; for n > 0 utterances it then holds exactly n cues in input order,
\* each the line formatTime(start) --> formatTime(end), the line
\* <v Speaker {speaker}>{text} and a blank line; for an empty or absent
\* sequence it holds exactly one cue 00:00:00.000 --> 00:00:10.000 whose text
\* is the provider's plain text, or the empty string when there is none.
C14_WebVTTLayout ==
    (fmt.op = "formatToWebVTT" /\ fmt.done) =>
        LET res   == fmt.arg
            lines == LinesOf(fmt.out)
            n     == Len(res.utterances)
        IN  /\ Len(lines) >= 2
            /\ lines[1] = <<"WEBVTT">>
            /\ lines[2] = <<>>
            /\ (res.hasUtterances /\ n > 0) =>
                 /\ Len(lines) = 2 + 3 * n
                 /\ \A i \in 1..n :
                      LET u == res.utterances[i] IN
                      /\ lines[3 * i] = formatTime(u.start) \o <<" --> ">> \o formatTime(u.end)
                      /\ lines[3 * i + 1] = <<"<v Speaker ">> \o u.speaker \o <<">">> \o u.text
                      /\ lines[3 * i + 2] = <<>>
            /\ (~res.hasUtterances \/ n = 0) =>
                 /\ Len(lines) = 4
                 /\ lines[3] = formatTime(0) \o <<" --> ">> \o formatTime(10000)
                 /\ lines[4] = (IF res.hasText THEN res.text ELSE <<>>)

\* Two utterances of different speakers have been formatted into two cues.
C14_Witness ==
    /\ fmt.op = "formatToWebVTT" /\ fmt.done
    /\ fmt.arg.hasUtterances
    /\ Len(fmt.arg.utterances) = 2
    /\ fmt.arg.utterances[1].speaker # fmt.arg.utterances[2].speaker
    /\ Len(LinesOf(fmt.out)) = 8

\* An absent utterance list has been formatted into the single ten-second cue
\* carrying the plain text.
C14_WitnessFallback ==
    /\ fmt.op = "formatToWebVTT" /\ fmt.done
    /\ ~fmt.arg.hasUtterances
    /\ fmt.arg.text = <<"plain text">>
    /\ LinesOf(fmt.out)[4] = <<"plain text">>

\* ------------------------------------------------------------------- C15
\* C15: when every external call eventually answers and the provider job
\* eventually reports completed or error, every run that sets the status to
\* PROCESSING eventually returns with the status COMPLETE, NO_AUDIO or UNSET.
C15_EventuallyReturnsSettled ==
    \A r \in Runs :
        Succeeded(r, "update", "PROCESSING")
            ~> (Returned(r) /\ StatusOf(r) \in {"COMPLETE", "NO_AUDIO", "UNSET"})

\* ------------------------------------------------------------------- C16
\* Run r logs in this step that its call c(a) succeeded.
SucceedsNow(r, c, a) ==
    /\ Len(calls'[r]) = Len(calls[r]) + 1
    /\ calls'[r][Len(calls'[r])] = [call |-> c, arg |-> a, ok |-> TRUE]

SameTarget(a, b) == a # b /\ payload[a] = [payload[b] EXCEPT !.aiGenerationEnabled =
                                                payload[a].aiGenerationEnabled]

\* Run b has staged its audio and its transcription job is not completed.
AwaitsTranscription(b) ==
    /\ Succeeded(b, "putObject", "audio-temp.mp3")
    /\ pc[b] \in {"audio_url", "submit", "poll"}
    /\ job[b] # "completed"

\* C16: with two runs for the same video, the status field and the staged
\* audio key are unguarded: a run's delete or put of the staged audio takes
\* effect whatever the other run is doing, also while the other run has staged
\* its audio and its job has not completed; and a failing run's reset writes
\* UNSET also after the other run returned success with status COMPLETE.
C16_Unguarded ==
    [][\A a, b \in Runs :
          SameTarget(a, b) =>
              LET key == audioKey(payload[a].userId, payload[a].videoId) IN
              /\ (AwaitsTranscription(b) /\ SucceedsNow(a, "deleteObject", "audio-temp.mp3"))
                    => objects'[key] = NoObject
              /\ (AwaitsTranscription(b) /\ SucceedsNow(a, "putObject", "audio-temp.mp3"))
                    => objects'[key] = [kind |-> "audio", by |-> a]
              /\ (Returned(b) /\ result[b].success /\ StatusOf(b) = "COMPLETE"
                     /\ SucceedsNow(a, "update", "UNSET"))
                    => /\ transcriptionStatus'[payload[b].videoId] = "UNSET"
                       /\ Returned(b)' /\ result'[b].success]_vars

\* Run r1 returned success; its delete removed the audio that r2 had staged
\* and was still waiting on; then r2 failed and reset the status of the
\* video r1 had completed.
C16_Witness ==
    /\ SameTarget("r1", "r2")
    /\ Returned("r1") /\ result["r1"].success
    /\ Succeeded("r1", "update", "COMPLETE")
    /\ Succeeded("r1", "deleteObject", "audio-temp.mp3")
    /\ Succeeded("r2", "putObject", "audio-temp.mp3")
    /\ ~Succeeded("r2", "poll", "completed")
    /\ objects[audioKey("u1", "v1")] = NoObject
    /\ Returned("r2") /\ ~result["r2"].success
    /\ \E i \in DOMAIN writes["r2"] :
          writes["r2"][i] = [video |-> "v1", from |-> "COMPLETE", to |-> "UNSET"]
    /\ transcriptionStatus["v1"] = "UNSET"

\* ------------------------------------------------------------------- C17
\* The place of a call in the pipeline of lines 182-270; 0 for the calls in
\* between (bucket access, URL of the video, reading and removing the
\* temporary file) and outside it.
StepOf(c) ==
    CASE c.call = "update" /\ c.arg = "PROCESSING"                    -> 1
      [] c.call = "fetch"                                             -> 2
      [] c.call \in {CheckCall(TRUE), CheckCall(FALSE)}               -> 3
      [] c.call \in ExtractionCalls                                   -> 4
      [] c.call = "putObject" /\ c.arg = "audio-temp.mp3"             -> 5
      [] c.call = "getSignedObjectUrl" /\ c.arg = "audio-temp.mp3"    -> 6
      [] c.call = "submit"                                            -> 7
      [] c.call = "poll"                                              -> 8
      [] c.call = "putObject" /\ c.arg = "transcription.vtt"          -> 9
      [] c.call = "update" /\ c.arg = "COMPLETE"                      -> 10
      [] c.call = "deleteObject"                                      -> 11
      [] OTHER                                                        -> 0

PollStep == 8

\* The call succeeded with the answer that lets the next step start.
StepDone(c) ==
    /\ c.ok
    /\ StepOf(c) = 3 => c.arg = "audio"
    /\ StepOf(c) = PollStep => c.arg = "completed"

\* The calls of a history that are steps of the pipeline, in order.
IsStep(c) == StepOf(c) > 0
StepCalls(history) == SelectSeq(history, IsStep)

\* C17: in every run the steps occur in the order PROCESSING update, source
\* probe, audio check, extraction, staged-audio put, signed URL, submit,
\* poll(s), artifact put, COMPLETE update, staged-audio delete, each starting
\* only after the previous one succeeded; so COMPLETE is written only after
\* the run's artifact put succeeded, the provider is submitted to at most once
\* and only after the staged-audio put succeeded, and the staged audio is
\* deleted only after the COMPLETE update.
C17_StepsInOrder ==
    \A r \in Runs :
        LET steps == StepCalls(calls[r]) IN
        /\ \A k \in DOMAIN steps :
              \/ k = 1 /\ StepOf(steps[k]) = 1
              \/ k > 1 /\ StepOf(steps[k]) = StepOf(steps[k - 1]) + 1
                       /\ StepDone(steps[k - 1])
              \/ k > 1 /\ StepOf(steps[k]) = PollStep
                       /\ StepOf(steps[k - 1]) = PollStep
                       /\ steps[k - 1].ok
                       /\ steps[k - 1].arg \in {"queued", "processing"}
        /\ (\E i \in DOMAIN writes[r] : writes[r][i].to = "COMPLETE") =>
              /\ Succeeded(r, "putObject", "transcription.vtt")
              /\ objects[transcriptionKey(payload[r].userId, payload[r].videoId)].kind = "vtt"
        /\ Cardinality(CallsTo(r, "submit")) <= 1
        /\ IssuedCall(r, "submit") => Succeeded(r, "putObject", "audio-temp.mp3")
        /\ IssuedCall(r, "deleteObject") => Succeeded(r, "update", "COMPLETE")

\* A run has gone through all eleven steps.
C17_Witness ==
    \E r \in Runs :
        /\ Returned(r) /\ result[r].success
        /\ \A k \in 1..11 : \E i \in DOMAIN calls[r] : StepOf(calls[r][i]) = k
        /\ Cardinality(CallsTo(r, "poll")) >= 2

\* ------------------------------------------------------------------- C18
\* Run r uses the local strategy and its extraction has returned.
ExtractedLocally(r) == Succeeded(r, "extractAudioFromUrl", "videoUrl")

\* Run r is past the try/finally of lines 232-237.
PastFinally(r) == pc[r] \notin {"read_file", "cleanup"}

\* C18 as stated: no state in which a run has returned still holds the
\* temporary file of its local extraction.
C18_TempFileAlwaysRemoved ==
    \A r \in Runs : (ExtractedLocally(r) /\ Returned(r)) => ~tempFile[r]

\* C18 amended: after a local extraction returned, cleanup is invoked exactly
\* once on every exit path (read succeeded, read failed, a later step failed),
\* after the read; a run that has left the finally block still holds the
\* temporary file only if the cleanup call itself was rejected.
C18_CleanupInvokedOnce ==
    \A r \in Runs :
        /\ Cardinality(CallsTo(r, "cleanup")) <= 1
        /\ CallsTo(r, "cleanup") # {} =>
              /\ ExtractedLocally(r)
              /\ \A j \in CallsTo(r, "cleanup") :
                    j > 1 /\ calls[r][j - 1].call = "readFile"
        /\ (ExtractedLocally(r) /\ PastFinally(r)) =>
              /\ Cardinality(CallsTo(r, "cleanup")) = 1
              /\ tempFile[r] => Rejected(r, "cleanup", "filePath")
        /\ ~ExtractedLocally(r) => ~tempFile[r]
        /\ Succeeded(r, "cleanup", "filePath") => ~tempFile[r]

\* A run whose read of the temporary file failed has returned its failure
\* with the file removed.
C18_Witness ==
    \E r \in Runs :
        /\ Rejected(r, "readFile", "filePath")
        /\ Succeeded(r, "cleanup", "filePath")
        /\ Returned(r) /\ ~result[r].success
        /\ ~tempFile[r]

\* ------------------------------------------------------------------- C19
\* The calls of each strategy (lines 212/220 remote, 223/232 local).
RemoteCalls == {CheckCall(TRUE), ExtractCall(TRUE)}
LocalCalls  == {CheckCall(FALSE), ExtractCall(FALSE), "readFile", "cleanup"}

IssuedAny(r, names) == \E i \in DOMAIN calls[r] : calls[r][i].call \in names

\* C19: the extraction strategy is chosen once per run, from whether the
\* remote media service is configured, and is never mixed or retried: the
\* audio-track check and the extraction are performed by the same strategy,
\* each at most once, and a failure of the chosen strategy fails the run
\* without falling back to the other strategy.
C19_OneStrategyPerRun ==
    \A r \in Runs :
        /\ ~(IssuedAny(r, RemoteCalls) /\ IssuedAny(r, LocalCalls))
        /\ IssuedAny(r, RemoteCalls) => env.mediaServer
        /\ IssuedAny(r, LocalCalls) => ~env.mediaServer
        /\ \A c \in RemoteCalls \cup LocalCalls : Cardinality(CallsTo(r, c)) <= 1
        /\ \A i \in DOMAIN calls[r] :
              (calls[r][i].call \in RemoteCalls \cup LocalCalls /\ ~calls[r][i].ok) =>
                  /\ \A j \in (i + 1)..Len(calls[r]) :
                        calls[r][j].call \in {"cleanup", "update"}
                  /\ ~IssuedCall(r, "putObject")
                  /\ Returned(r) => ~result[r].success

\* A run whose remote extraction was rejected has returned its failure
\* without any call of the local strategy.
C19_Witness ==
    \E r \in Runs :
        /\ Succeeded(r, CheckCall(TRUE), "audio")
        /\ Rejected(r, ExtractCall(TRUE), "videoUrl")
        /\ Returned(r) /\ ~result[r].success
        /\ ~IssuedAny(r, LocalCalls)

\* ------------------------------------------------------------------- C20
\* Run r takes this step.
Acts(r) == calls'[r] # calls[r]

\* The object keys of run r.
KeysOf(r) == {audioKey(payload[r].userId, payload[r].videoId),
              transcriptionKey(payload[r].userId, payload[r].videoId)}

\* The status writes of run r form an unbroken chain from the status its
\* video had at the call to the status it has now: nobody else wrote it.
AsIfAlone(r) ==
    LET v == payload[r].videoId
        n == Len(writes[r])
    IN  /\ \A i \in 1..n :
              /\ writes[r][i].video = v
              /\ writes[r][i].from = (IF i = 1 THEN statusAtCall[v] ELSE writes[r][i - 1].to)
        /\ transcriptionStatus[v] = (IF n = 0 THEN statusAtCall[v] ELSE writes[r][n].to)
        /\ \A k \in KeysOf(r) : objects[k].by \in {r, "nobody"}

\* C20: a run for video v of user u writes only the status of v and only the
\* object keys u/v/audio-temp and u/v/transcription: in every interleaving of
\* runs on distinct videos, a step of a run leaves the status and the objects
\* of any other video unchanged, so each video's status is the one its own
\* run's writes alone produce.
C20_WritesOnlyOwnVideo ==
    [][/\ \A r \in Runs :
            Acts(r) =>
               /\ \A v \in VideoIds \ {payload[r].videoId} :
                     transcriptionStatus'[v] = transcriptionStatus[v]
               /\ \A k \in ObjectKeys \ KeysOf(r) : objects'[k] = objects[k]
       /\ \A r \in Runs : AsIfAlone(r)']_vars

\* Both runs have returned: r1 completed v1 and stored its subtitles, r2
\* failed on v2 after staging its audio and reset it; each video shows its
\* own run's outcome.
C20_Witness ==
    /\ payload["r1"].videoId # payload["r2"].videoId
    /\ Returned("r1") /\ result["r1"].success
    /\ Returned("r2") /\ ~result["r2"].success
    /\ Succeeded("r2", "putObject", "audio-temp.mp3")
    /\ transcriptionStatus["v1"] = "COMPLETE"
    /\ transcriptionStatus["v2"] = "UNSET"
    /\ objects[transcriptionKey("u1", "v1")] = [kind |-> "vtt", by |-> "r1"]
    /\ objects[audioKey("u2", "v2")] = [kind |-> "audio", by |-> "r2"]

=============================================================================
